---- MODULE Spec2Model ----
(***************************************************************************)
(* Packit configuration resolution (packit/config/package_config.py,       *)
(* packit/config/job_config.py) and package status (packit/status.py).     *)
(*                                                                         *)
(* Python values: None is the string NoneVal, a dict is a function whose   *)
(* DOMAIN is its set of keys, a list is a sequence.  A list object that    *)
(* several owners can reach is kept in a variable of its own and the       *)
(* owners hold a reference to it.                                          *)
(***************************************************************************)
EXTENDS Naturals, Sequences, FiniteSets, TLC

VARIABLES
    default_jobs,   \* the module-level list imported at package_config.py:35
    held,           \* jobs attribute of an earlier PackageConfig the caller kept
    call,           \* arguments of the resolution call in progress / last made
    outcome,        \* what that call handed to its caller
    phase,          \* "idle" | "returned" | "in_use" | "raised"
    upc,            \* PackageConfig whose downstream_project_url is read
    urlReads,       \* values returned by the reads of downstream_project_url
    fpc,            \* PackageConfig whose get_all_files_to_sync is called
    fcalls,         \* per call: stored list before, after, and the result
    st              \* Status: the call made, what Bodhi holds, the result

vars == <<default_jobs, held, call, outcome, phase, upc, urlReads, fpc, fcalls, st>>
resolverVars == <<default_jobs, held, call, outcome, phase>>
urlVars == <<upc, urlReads>>
filesVars == <<fpc, fcalls>>
statusVars == <<st>>

----------------------------------------------------------------------------
(* Bounds                                                                  *)

MaxJobs == 4        \* longest jobs list a caller grows by appending
MaxUrlReads == 3    \* reads of downstream_project_url that are recorded
MaxFilesCalls == 3  \* calls of get_all_files_to_sync that are recorded
MaxUpdates == 3     \* updates Bodhi holds for the package
MaxRequested == 3   \* largest number_of_updates asked for
MaxBuilds == 3      \* builds Koji lists for the package

----------------------------------------------------------------------------
(* Python helpers                                                          *)

NoneVal == "<None>"

\* bool(v) of a str-or-None value
Truthy(v) == v # NoneVal /\ v # ""

EmptyDict == [k \in {} |-> NoneVal]

\* dict.get(key, None)
Get(d, k) == IF k \in DOMAIN d THEN d[k] ELSE NoneVal

Item(s) == [src |-> s, dest |-> s]

----------------------------------------------------------------------------
(* job_config.py                                                           *)

JobType == {"propose_downstream", "build", "sync_from_downstream", "copr_build",
            "production_build", "koji_build", "tests", "bodhi_update",
            "vm_image_build"}

JobConfigTriggerType == {"release", "pull_request", "commit"}

DEFAULT_VERSION == "DEFAULT_VERSION"

get_default_jobs ==
    << [job |-> "copr_build", trigger |-> "pull_request",
        targets |-> <<DEFAULT_VERSION>>],
       [job |-> "tests", trigger |-> "pull_request",
        targets |-> <<DEFAULT_VERSION>>],
       [job |-> "propose_downstream", trigger |-> "release",
        dist_git_branches |-> <<"fedora-all">>] >>

\* JobConfig(type, trigger, **kwargs): the overridable attributes the model
\* follows are create_pr and synced_files; targets and dist_git_branches are
\* the job-only keys the default jobs carry.
JobConfig(type, trigger, kw) ==
    [type |-> type,
     trigger |-> trigger,
     create_pr |-> IF "create_pr" \in DOMAIN kw THEN kw.create_pr ELSE TRUE,
     synced_files |-> IF "synced_files" \in DOMAIN kw THEN kw.synced_files ELSE <<>>,
     targets |-> IF "targets" \in DOMAIN kw THEN kw.targets ELSE <<>>,
     dist_git_branches |->
        IF "dist_git_branches" \in DOMAIN kw THEN kw.dist_git_branches ELSE <<>>]

\* The value the list default_jobs has when the module is imported: the three
\* default jobs as JobConfig objects, built before any document is seen.
default_jobs_at_import ==
    [i \in 1..Len(get_default_jobs) |->
        JobConfig(get_default_jobs[i].job, get_default_jobs[i].trigger,
                  get_default_jobs[i])]

\* JobConfigSchema: a raw job is accepted when job and trigger are members of
\* their enumerations.
JobValid(raw) ==
    /\ "job" \in DOMAIN raw /\ raw.job \in JobType
    /\ "trigger" \in DOMAIN raw /\ raw.trigger \in JobConfigTriggerType

\* A raw job resolved against the package-level attributes: each attribute the
\* raw job names replaces the package-level value, the others are inherited.
resolveJob(raw, pkg) ==
    JobConfig(raw.job, raw.trigger,
              raw @@ [create_pr |-> pkg.create_pr,
                      synced_files |-> pkg.synced_files])

----------------------------------------------------------------------------
(* package_config.py: PackageConfig                                        *)

PROD_DISTGIT_URL == "https://src.fedoraproject.org/"

\* A jobs attribute is a reference: to the shared list default_jobs, or to a
\* list this PackageConfig alone owns.
OwnList(seq) == [ref |-> "own", list |-> seq]
SharedDefault == [ref |-> "default_jobs", list |-> <<>>]
NoRef == [ref |-> "none", list |-> <<>>]

\* The list a jobs reference denotes in the current state.
Deref(r) == IF r.ref = "default_jobs" THEN default_jobs ELSE r.list

\* PackageConfig.__init__ applied to keyword arguments kw.
PackageConfig(kw) ==
    [config_file_path |-> Get(kw, "config_file_path"),
     specfile_path |-> Get(kw, "specfile_path"),
     synced_files |-> IF "synced_files" \in DOMAIN kw THEN kw.synced_files ELSE <<>>,
     jobs |-> IF "jobs" \in DOMAIN kw THEN OwnList(kw.jobs) ELSE OwnList(<<>>),
     dist_git_namespace |->
        IF Truthy(Get(kw, "dist_git_namespace")) THEN kw.dist_git_namespace
        ELSE "rpms",
     upstream_package_name |-> Get(kw, "upstream_package_name"),
     downstream_package_name |-> Get(kw, "downstream_package_name"),
     dist_git_base_url |->
        IF Truthy(Get(kw, "dist_git_base_url")) THEN kw.dist_git_base_url
        ELSE PROD_DISTGIT_URL,
     _downstream_project_url |-> Get(kw, "downstream_project_url"),
     create_pr |-> IF "create_pr" \in DOMAIN kw THEN kw.create_pr ELSE TRUE]

NoConfig == [none |-> TRUE]

----------------------------------------------------------------------------
(* Exceptions                                                              *)

NoExc == [type |-> "None", msg |-> ""]

\* An exception object; cause is the exception being handled when it was
\* raised (Python's __context__), NoExc when there is none.
Exc(type, msg, cause) == [type |-> type, msg |-> msg, cause |-> cause]

Returned(pc) == [raised |-> FALSE, exc |-> Exc("None", "", NoExc), cfg |-> pc]
Raised(e) == [raised |-> TRUE, exc |-> e, cfg |-> NoConfig]

SpecFileNotFound == Exc("PackitConfigException", "Spec file was not found!", NoExc)
ValidationError == Exc("ValidationError", "invalid document", NoExc)

----------------------------------------------------------------------------
(* packit.schema: PackageConfigSchema                                      *)

\* Validation of the raw document: every raw job must be a valid job.
SchemaValid(doc) ==
    "jobs" \in DOMAIN doc => \A i \in 1..Len(doc.jobs) : JobValid(doc.jobs[i])

\* PackageConfigSchema(strict=True).load(raw_dict).data for a valid document:
\* the package-level attributes, and each raw job resolved against them.
SchemaLoad(doc) ==
    LET pkg == PackageConfig([k \in DOMAIN doc \ {"jobs"} |-> doc[k]])
    IN  IF "jobs" \in DOMAIN doc
        THEN [pkg EXCEPT !.jobs =
                 OwnList([i \in 1..Len(doc.jobs) |-> resolveJob(doc.jobs[i], pkg)])]
        ELSE pkg

----------------------------------------------------------------------------
(* package_config.py: PackageConfig.get_from_dict, parse_loaded_config     *)

\* lines 150-151: config_file_path is put into the raw document
InjectConfigFilePath(raw_dict, config_file_path) ==
    IF Truthy(config_file_path) /\ ~Truthy(Get(raw_dict, "config_file_path"))
    THEN [k \in DOMAIN raw_dict \cup {"config_file_path"} |->
             IF k = "config_file_path" THEN config_file_path ELSE raw_dict[k]]
    ELSE raw_dict

\* the fallback without its raise: the passed path is taken as it is
SpecFileStepNoRaise(pc, spec_file_path) ==
    IF ~Truthy(pc.specfile_path)
    THEN Returned([pc EXCEPT !.specfile_path = spec_file_path])
    ELSE Returned(pc)

\* lines 155-159: the spec file fallback; an outcome
SpecFileStep(pc, spec_file_path) ==
    IF ~Truthy(pc.specfile_path)
    THEN IF Truthy(spec_file_path)
         THEN Returned([pc EXCEPT !.specfile_path = spec_file_path])
         ELSE Raised(SpecFileNotFound)
    ELSE Returned(pc)

\* lines 161-162
UpstreamNameStep(pc, repo_name) ==
    IF ~Truthy(pc.upstream_package_name) /\ Truthy(repo_name)
    THEN [pc EXCEPT !.upstream_package_name = repo_name]
    ELSE pc

\* the downstream name decided by the test of the upstream name
DownstreamNameStepCoupled(pc, repo_name) ==
    IF ~Truthy(pc.upstream_package_name) /\ Truthy(repo_name)
    THEN [pc EXCEPT !.downstream_package_name = repo_name]
    ELSE pc

\* lines 164-165
DownstreamNameStep(pc, repo_name) ==
    IF ~Truthy(pc.downstream_package_name) /\ Truthy(repo_name)
    THEN [pc EXCEPT !.downstream_package_name = repo_name]
    ELSE pc

\* lines 167-168: the jobs attribute is bound to the list default_jobs itself
DefaultJobsStep(pc, raw_dict) ==
    IF "jobs" \notin DOMAIN raw_dict
    THEN [pc EXCEPT !.jobs = SharedDefault]
    ELSE pc

get_from_dict(raw_dict0, config_file_path, repo_name, spec_file_path) ==
    LET raw_dict == InjectConfigFilePath(raw_dict0, config_file_path)
    IN  IF ~SchemaValid(raw_dict)
        THEN Raised(ValidationError)
        ELSE LET s == SpecFileStep(SchemaLoad(raw_dict), spec_file_path)
             IN  IF s.raised
                 THEN s
                 ELSE Returned(
                        DefaultJobsStep(
                          DownstreamNameStep(
                            UpstreamNameStep(s.cfg, repo_name), repo_name),
                          raw_dict))

\* lines 321-323: every exception is replaced by a PackitConfigException
\* whose message quotes it; the handled exception stays attached to it.
CannotParse(ex) ==
    Exc("PackitConfigException",
        "Cannot parse package config: " \o ex.msg \o ".",
        [type |-> ex.type, msg |-> ex.msg])

\* a handler that catches PackitConfigException only
parse_loaded_config_narrow(loaded_config, config_file_path, repo_name, spec_file_path) ==
    LET r == get_from_dict(loaded_config, config_file_path, repo_name, spec_file_path)
    IN  IF r.raised /\ r.exc.type = "PackitConfigException"
        THEN Raised(CannotParse(r.exc))
        ELSE r

parse_loaded_config(loaded_config, config_file_path, repo_name, spec_file_path) ==
    LET r == get_from_dict(loaded_config, config_file_path, repo_name, spec_file_path)
    IN  IF r.raised THEN Raised(CannotParse(r.exc)) ELSE r

----------------------------------------------------------------------------
(* Raw documents and arguments the resolver is called with                 *)

\* the dicts that either lack key k or bind it to a value of vals
Opt(k, vals) == {EmptyDict} \cup {[x \in {k} |-> v] : v \in vals}

RawJobs ==
    {[job |-> "build", trigger |-> "commit"],
     [job |-> "build", trigger |-> "commit", create_pr |-> TRUE,
      synced_files |-> <<Item("job.txt")>>],
     [job |-> "build", trigger |-> "commit", create_pr |-> FALSE],
     [job |-> "deploy", trigger |-> "commit"]}

Docs ==
    {a @@ b @@ c @@ d @@ e @@ f :
        a \in Opt("specfile_path", {"a.spec"}),
        b \in Opt("upstream_package_name", {"", "up"}),
        c \in Opt("downstream_package_name", {"", "down"}),
        d \in Opt("create_pr", {FALSE}),
        e \in Opt("synced_files", {<<Item("pkg.txt")>>}),
        f \in Opt("jobs", {<<>>} \cup {<<j>> : j \in RawJobs})}

ConfigFilePaths == {NoneVal, ".packit.yaml"}
RepoNames == {NoneVal, "repo"}
SpecFilePaths == {NoneVal, "found.spec"}

NoCall == [via |-> "none"]
NoOutcome == [raised |-> FALSE, exc |-> Exc("None", "", NoExc), cfg |-> NoConfig]

\* the job a caller appends to a jobs list it was handed
ExtraJob == JobConfig("koji_build", "commit", EmptyDict)

----------------------------------------------------------------------------
(* Resolver: actions                                                       *)

Deliver(via, doc, cfp, repo, sfp, r) ==
    /\ call' = [via |-> via, doc |-> doc, config_file_path |-> cfp,
                repo_name |-> repo, spec_file_path |-> sfp]
    /\ outcome' = r
    /\ phase' = IF r.raised THEN "raised" ELSE "returned"
    /\ UNCHANGED <<default_jobs, held>>

\* a caller (get_local_package_config, get_package_config_from_repo) resolves
\* a loaded document of D through parse_loaded_config
ParseLoadedConfigOf(D) ==
    /\ phase = "idle"
    /\ \E doc \in D, cfp \in ConfigFilePaths, repo \in RepoNames,
          sfp \in SpecFilePaths :
          Deliver("parse_loaded_config", doc, cfp, repo, sfp,
                  parse_loaded_config(doc, cfp, repo, sfp))
    /\ UNCHANGED <<urlVars, filesVars, statusVars>>

\* a caller uses the classmethod PackageConfig.get_from_dict itself
GetFromDictOf(D) ==
    /\ phase = "idle"
    /\ \E doc \in D, cfp \in ConfigFilePaths, repo \in RepoNames,
          sfp \in SpecFilePaths :
          Deliver("get_from_dict", doc, cfp, repo, sfp,
                  get_from_dict(doc, cfp, repo, sfp))
    /\ UNCHANGED <<urlVars, filesVars, statusVars>>

Cur == outcome.cfg

\* write list value seq through the jobs reference of the current config
StoreJobs(seq) ==
    IF Cur.jobs.ref = "default_jobs"
    THEN /\ default_jobs' = seq
         /\ outcome' = outcome
    ELSE /\ default_jobs' = default_jobs
         /\ outcome' = [outcome EXCEPT !.cfg.jobs.list = seq]

\* the caller appends a job to package_config.jobs
AppendJob ==
    /\ phase \in {"returned", "in_use"}
    /\ Len(Deref(Cur.jobs)) < MaxJobs
    /\ StoreJobs(Append(Deref(Cur.jobs), ExtraJob))
    /\ phase' = "in_use"
    /\ UNCHANGED <<held, call, urlVars, filesVars, statusVars>>

\* the caller sets create_pr of the first job of package_config.jobs
SetJobCreatePr ==
    /\ phase \in {"returned", "in_use"}
    /\ Len(Deref(Cur.jobs)) >= 1
    /\ Deref(Cur.jobs)[1].create_pr
    /\ StoreJobs([Deref(Cur.jobs) EXCEPT ![1].create_pr = FALSE])
    /\ phase' = "in_use"
    /\ UNCHANGED <<held, call, urlVars, filesVars, statusVars>>

\* the caller keeps the PackageConfig it has and goes on to resolve another
Keep ==
    /\ phase \in {"returned", "in_use"}
    /\ held' = Cur.jobs
    /\ call' = NoCall /\ outcome' = NoOutcome /\ phase' = "idle"
    /\ UNCHANGED <<default_jobs, urlVars, filesVars, statusVars>>

\* the caller drops the result (or handles the exception) and goes on
Drop ==
    /\ phase \in {"returned", "in_use", "raised"}
    /\ call' = NoCall /\ outcome' = NoOutcome /\ phase' = "idle"
    /\ UNCHANGED <<default_jobs, held, urlVars, filesVars, statusVars>>

InitUrl ==
    /\ upc = [given |-> NoneVal, obj |-> NoConfig]
    /\ urlReads = <<>>

InitFiles ==
    /\ fpc = NoConfig
    /\ fcalls = <<>>

InitResolver ==
    /\ default_jobs = default_jobs_at_import
    /\ held = NoRef
    /\ call = NoCall
    /\ outcome = NoOutcome
    /\ phase = "idle"

NoStatusCall == [phase |-> "idle"]

InitStatus == st = NoStatusCall

Init == InitResolver /\ InitUrl /\ InitFiles /\ InitStatus

CallParseLoadedConfig == ParseLoadedConfigOf(Docs)
CallGetFromDict == GetFromDictOf(Docs)

Next ==
    \/ CallParseLoadedConfig
    \/ CallGetFromDict
    \/ AppendJob
    \/ SetJobCreatePr
    \/ Drop

Spec == Init /\ [][Next]_vars

\* Two PackageConfig objects alive at once: the caller keeps one and resolves
\* another.  The documents differ in what decides the jobs attribute.
DocsShare ==
    {a @@ d @@ f :
        a \in {[specfile_path |-> "a.spec"]},
        d \in Opt("create_pr", {FALSE}),
        f \in Opt("jobs", {<<>>, <<[job |-> "build", trigger |-> "commit"]>>})}

ShareParseLoadedConfig == ParseLoadedConfigOf(DocsShare)
ShareGetFromDict == GetFromDictOf(DocsShare)

NextShare ==
    \/ ShareParseLoadedConfig
    \/ ShareGetFromDict
    \/ AppendJob
    \/ SetJobCreatePr
    \/ Keep
    \/ Drop

SpecShare == Init /\ [][NextShare]_vars

----------------------------------------------------------------------------
(* Claims about the resolver                                               *)

\* the raw job definitions behind the jobs of the current config
RawJobsOfCall ==
    IF "jobs" \in DOMAIN call.doc THEN call.doc.jobs ELSE get_default_jobs

\* C1: a document without a jobs key resolves to exactly the three default
\* jobs, each resolved against that document's package-level attributes; a
\* document with jobs: [] resolves to the empty sequence of jobs.
C1_DefaultJobsResolvedAgainstPackage ==
    phase = "returned" =>
       /\ "jobs" \notin DOMAIN call.doc =>
             Deref(Cur.jobs) =
                [i \in 1..Len(get_default_jobs) |->
                    resolveJob(get_default_jobs[i], Cur)]
       /\ ("jobs" \in DOMAIN call.doc /\ call.doc.jobs = <<>>) =>
             Deref(Cur.jobs) = <<>>

\* C2: every job of a resolved configuration has, for create_pr and for
\* synced_files, the value its raw definition gives when it gives one and the
\* package-level value when it gives none.
C2_JobAttributeOverrideOrInherit ==
    phase = "returned" =>
       /\ Len(Deref(Cur.jobs)) = Len(RawJobsOfCall)
       /\ \A i \in 1..Len(Deref(Cur.jobs)) :
             LET job == Deref(Cur.jobs)[i]
                 raw == RawJobsOfCall[i]
             IN  /\ job.create_pr =
                       IF "create_pr" \in DOMAIN raw THEN raw.create_pr
                       ELSE Cur.create_pr
                 /\ job.synced_files =
                       IF "synced_files" \in DOMAIN raw THEN raw.synced_files
                       ELSE Cur.synced_files

\* C3: a caller's mutation of the jobs of the configuration it was handed
\* changes neither the jobs seen through another configuration it kept nor
\* the default jobs a later call obtains.
C3_NoSharedMutableState ==
    [][(AppendJob \/ SetJobCreatePr) =>
          /\ Deref(held)' = Deref(held)
          /\ default_jobs' = default_jobs]_vars

DocLacksSpecfile == ~Truthy(Get(call.doc, "specfile_path"))

\* C7: with no specfile_path in the document and none passed, resolution
\* fails with the spec-file error itself, not wrapped, and returns no
\* PackageConfig; with none in the document and one passed, the passed path
\* is the resolved specfile_path.
C7_MissingSpecFileRaisedDirectly ==
    (phase \in {"returned", "raised"} /\ DocLacksSpecfile /\ SchemaValid(call.doc)) =>
       IF Truthy(call.spec_file_path)
       THEN ~outcome.raised /\ Cur.specfile_path = call.spec_file_path
       ELSE outcome.raised /\ outcome.cfg = NoConfig /\ outcome.exc = SpecFileNotFound

\* C7 as amended: PackageConfig.get_from_dict raises the spec-file error
\* itself; parse_loaded_config hands it to its caller wrapped in the
\* "Cannot parse package config" error, as it does every other exception.
C7_MissingSpecFileWrappedByParse ==
    (phase \in {"returned", "raised"} /\ DocLacksSpecfile /\ SchemaValid(call.doc)) =>
       IF Truthy(call.spec_file_path)
       THEN ~outcome.raised /\ Cur.specfile_path = call.spec_file_path
       ELSE /\ outcome.raised /\ outcome.cfg = NoConfig
            /\ IF call.via = "get_from_dict"
               THEN outcome.exc = SpecFileNotFound
               ELSE /\ outcome.exc.type = "PackitConfigException"
                    /\ outcome.exc.msg =
                          "Cannot parse package config: Spec file was not found!."
                    /\ outcome.exc.cause =
                          [type |-> "PackitConfigException",
                           msg |-> "Spec file was not found!"]

C7_Witness ==
    /\ phase = "raised" /\ call.via = "parse_loaded_config"
    /\ DocLacksSpecfile /\ SchemaValid(call.doc)
    /\ ~Truthy(call.spec_file_path)
    /\ outcome.exc.cause.msg = "Spec file was not found!"

NameGiven(k) == k \in DOMAIN call.doc /\ call.doc[k] # ""

\* C9: with a repo name supplied, upstream_package_name is the repo name
\* exactly when the document gives none, downstream_package_name likewise,
\* each decided on its own; a name the document gives is kept.
C9_PackageNamesDefaultIndependently ==
    (phase = "returned" /\ Truthy(call.repo_name)) =>
       /\ Cur.upstream_package_name =
             IF NameGiven("upstream_package_name")
             THEN call.doc.upstream_package_name ELSE call.repo_name
       /\ Cur.downstream_package_name =
             IF NameGiven("downstream_package_name")
             THEN call.doc.downstream_package_name ELSE call.repo_name

C9_Witness ==
    /\ phase = "returned" /\ Truthy(call.repo_name)
    /\ NameGiven("upstream_package_name")
    /\ ~NameGiven("downstream_package_name")
    /\ Cur.upstream_package_name = "up"
    /\ Cur.downstream_package_name = "repo"

----------------------------------------------------------------------------
(* package_config.py: downstream_project_url                               *)

\* str(v) inside an f-string
Str(v) == IF v = NoneVal THEN "None" ELSE v

\* lines 132-137
dist_git_package_url(pc) ==
    Str(pc.dist_git_base_url) \o Str(pc.dist_git_namespace) \o "/"
        \o Str(pc.downstream_package_name) \o ".git"

\* the property without its assignment: nothing is stored
downstream_project_url_live(pc) ==
    [pc |-> pc,
     value |-> IF ~Truthy(pc._downstream_project_url)
               THEN dist_git_package_url(pc)
               ELSE pc._downstream_project_url]

\* lines 126-130: the object after the read, and the value read
downstream_project_url(pc) ==
    LET pc1 == IF ~Truthy(pc._downstream_project_url)
               THEN [pc EXCEPT !._downstream_project_url = dist_git_package_url(pc)]
               ELSE pc
    IN  [pc |-> pc1, value |-> pc1._downstream_project_url]

DownstreamUrls == {NoneVal, "https://example.org/rpms/pkg.git"}
Namespaces == {NoneVal, "rpms", "forks"}
PackageNames == {NoneVal, "pkg", "other"}

\* PackageConfig(...) is constructed
ConstructForUrl ==
    /\ upc.obj = NoConfig
    /\ \E u \in DownstreamUrls, ns \in Namespaces, name \in PackageNames :
          upc' = [given |-> u,
                  obj |-> PackageConfig([downstream_project_url |-> u,
                                         dist_git_namespace |-> ns,
                                         downstream_package_name |-> name])]
    /\ UNCHANGED <<urlReads, resolverVars, filesVars, statusVars>>

\* package_config.downstream_project_url is read
ReadDownstreamProjectUrl ==
    /\ upc.obj # NoConfig
    /\ Len(urlReads) < MaxUrlReads
    /\ LET r == downstream_project_url(upc.obj)
       IN  /\ upc' = [upc EXCEPT !.obj = r.pc]
           /\ urlReads' = Append(urlReads, r.value)
    /\ UNCHANGED <<resolverVars, filesVars, statusVars>>

\* package_config.dist_git_namespace = ns
SetDistGitNamespace ==
    /\ upc.obj # NoConfig
    /\ \E ns \in Namespaces : upc' = [upc EXCEPT !.obj.dist_git_namespace = ns]
    /\ UNCHANGED <<urlReads, resolverVars, filesVars, statusVars>>

\* package_config.downstream_package_name = name
SetDownstreamPackageName ==
    /\ upc.obj # NoConfig
    /\ \E name \in PackageNames :
          upc' = [upc EXCEPT !.obj.downstream_package_name = name]
    /\ UNCHANGED <<urlReads, resolverVars, filesVars, statusVars>>

NextUrl ==
    \/ ConstructForUrl
    \/ ReadDownstreamProjectUrl
    \/ SetDistGitNamespace
    \/ SetDownstreamPackageName

SpecUrl == Init /\ [][NextUrl]_vars

\* C4: without an explicit downstream URL, every read of
\* downstream_project_url after the first returns what the first returned,
\* whatever dist_git_namespace and downstream_package_name have become; with
\* an explicit URL every read returns it.
C4_DownstreamUrlReadOnce ==
    \A i \in 1..Len(urlReads) :
       IF Truthy(upc.given)
       THEN urlReads[i] = upc.given
       ELSE urlReads[i] = urlReads[1]

C4_Witness ==
    /\ ~Truthy(upc.given)
    /\ Len(urlReads) >= 2
    /\ upc.obj # NoConfig
    /\ dist_git_package_url(upc.obj) # urlReads[1]
    /\ urlReads[2] = urlReads[1]

----------------------------------------------------------------------------
(* package_config.py: get_all_files_to_sync                                *)

\* SyncFilesConfig.files_to_sync: the list the SyncFilesConfig was built on,
\* handed out as it is
files_to_sync(synced_files) == synced_files

\* (item.src for item in files)
Srcs(files) == {files[i].src : i \in 1..Len(files)}

\* the lookup made on whole items instead of on src
get_all_files_to_sync_by_item(pc) ==
    LET files0 == files_to_sync(pc.synced_files)
        files1 == IF \A i \in 1..Len(files0) : files0[i] # Item(pc.specfile_path)
                  THEN Append(files0, Item(pc.specfile_path))
                  ELSE files0
        files2 == IF /\ Truthy(pc.config_file_path)
                     /\ \A i \in 1..Len(files1) : files1[i] # Item(pc.config_file_path)
                  THEN Append(files1, Item(pc.config_file_path))
                  ELSE files1
    IN  [pc |-> [pc EXCEPT !.synced_files = files2], result |-> files2]

\* lines 172-189.  files is the list object that self.synced_files holds,
\* so each append lands in the stored list, and the SyncFilesConfig returned
\* wraps the same list.  The object after the call, and the entries of the
\* result.
get_all_files_to_sync(pc) ==
    LET files0 == files_to_sync(pc.synced_files)
        files1 == IF pc.specfile_path \notin Srcs(files0)
                  THEN Append(files0, Item(pc.specfile_path))
                  ELSE files0
        files2 == IF /\ Truthy(pc.config_file_path)
                     /\ pc.config_file_path \notin Srcs(files1)
                  THEN Append(files1, Item(pc.config_file_path))
                  ELSE files1
    IN  [pc |-> [pc EXCEPT !.synced_files = files2], result |-> files2]

SyncedFileLists ==
    {<<>>,
     <<Item("a.spec")>>,
     <<[src |-> "a.spec", dest |-> "pkg.spec"]>>,
     <<Item(".packit.yaml")>>,
     <<Item("README"), Item("a.spec")>>,
     <<Item("README"), Item("README")>>,
     <<[src |-> ".packit.yaml", dest |-> "cfg.yaml"], Item("README")>>}

FilesSpecPaths == {"a.spec", "b.spec"}
FilesConfigPaths == {NoneVal, ".packit.yaml", "a.spec"}

\* PackageConfig(...) is constructed
ConstructForFiles ==
    /\ fpc = NoConfig
    /\ \E sp \in FilesSpecPaths, cp \in FilesConfigPaths, fs \in SyncedFileLists :
          fpc' = PackageConfig([specfile_path |-> sp, config_file_path |-> cp,
                                synced_files |-> fs])
    /\ UNCHANGED <<fcalls, resolverVars, urlVars, statusVars>>

\* package_config.get_all_files_to_sync() is called
CallGetAllFilesToSync ==
    /\ fpc # NoConfig
    /\ Len(fcalls) < MaxFilesCalls
    /\ LET r == get_all_files_to_sync(fpc)
       IN  /\ fpc' = r.pc
           /\ fcalls' = Append(fcalls, [before |-> fpc.synced_files,
                                        after |-> r.pc.synced_files,
                                        result |-> r.result])
    /\ UNCHANGED <<resolverVars, urlVars, statusVars>>

NextFiles ==
    \/ ConstructForFiles
    \/ CallGetAllFilesToSync

SpecFiles == Init /\ [][NextFiles]_vars

\* C5: get_all_files_to_sync leaves the stored synced files as they were
\* before the first call.
C5_StoredSyncedFilesUnmodified ==
    fcalls # <<>> => fpc.synced_files = fcalls[1].before

\* number of entries of files whose src is s
CountSrc(files, s) == Cardinality({i \in 1..Len(files) : files[i].src = s})

\* C6: the result is the current entries in order, then (spec, spec) only if
\* no entry has src = specfile_path, then (config, config) only if
\* config_file_path is set and no entry has that src; however often it is
\* called, the result holds at most one such default entry per path.
C6_DefaultsAppendedOnce ==
    \A i \in 1..Len(fcalls) :
       LET c == fcalls[i]
           specPart == IF \E k \in 1..Len(c.before) :
                             c.before[k].src = fpc.specfile_path
                       THEN <<>> ELSE <<Item(fpc.specfile_path)>>
           withSpec == c.before \o specPart
           cfgPart == IF /\ Truthy(fpc.config_file_path)
                         /\ ~\E k \in 1..Len(withSpec) :
                               withSpec[k].src = fpc.config_file_path
                      THEN <<Item(fpc.config_file_path)>> ELSE <<>>
           first == fcalls[1].before
           added == SubSeq(c.result, Len(first) + 1, Len(c.result))
       IN  /\ c.result = withSpec \o cfgPart
           /\ SubSeq(c.result, 1, Len(first)) = first
           /\ CountSrc(added, fpc.specfile_path) <= 1
           /\ CountSrc(added, fpc.config_file_path) <= 1

C6_Witness ==
    /\ Len(fcalls) >= 2
    /\ Len(fcalls[1].result) = Len(fcalls[1].before) + 2
    /\ fcalls[2].result = fcalls[1].result
    /\ \E k \in 1..Len(fcalls[1].before) :
          fcalls[1].before[k].src = "README"

----------------------------------------------------------------------------
(* status.py: Status.get_updates                                           *)

Statuses == {"stable", "testing"}
Branches == {"f30", "f31"}

\* an update as Bodhi returns it
Update(status, branch) ==
    [title |-> "pkg-1." \o branch \o "-" \o status, karma |-> 0,
     status |-> status, release |-> [branch |-> branch]]

UpdateKinds == {Update(s, b) : s \in Statuses, b \in Branches}

RECURSIVE SeqsUpTo(_, _)
\* the sequences over S of length at most n
SeqsUpTo(S, n) ==
    IF n = 0 THEN {<<>>}
    ELSE LET shorter == SeqsUpTo(S, n - 1)
         IN  shorter \cup {Append(q, x) : q \in shorter, x \in S}

PageSizes == {1, 2}

\* number of result pages Bodhi has for all updates, ps to a page
PageCount(all, ps) == (Len(all) + ps - 1) \div ps

\* bodhi_client.query(packages=..., page=page): lines 138-141
query(all, ps, page) ==
    [updates |-> SubSeq(all, (page - 1) * ps + 1,
                        IF page * ps < Len(all) THEN page * ps ELSE Len(all)),
     pages |-> PageCount(all, ps)]

RECURSIVE FetchPages(_, _, _, _, _)
\* lines 136-144: the while loop, from its test
FetchPages(all, ps, page, pages, updates) ==
    IF page <= pages
    THEN LET results == query(all, ps, page)
         IN  FetchPages(all, ps, page + 1, results.pages,
                        updates \o results.updates)
    ELSE updates

RECURSIVE SelectUpdatesUnfiltered(_, _, _, _, _)
\* the for loop without the test on stable_branches: every update is taken
SelectUpdatesUnfiltered(all_updates, i, updates, stable_branches, number_of_updates) ==
    IF i > Len(all_updates)
    THEN updates
    ELSE LET u == all_updates[i]
             updates1 == Append(updates, <<u.title, u.karma, u.status>>)
         IN  IF Len(updates1) = number_of_updates
             THEN updates1
             ELSE SelectUpdatesUnfiltered(all_updates, i + 1, updates1,
                                          stable_branches, number_of_updates)

RECURSIVE SelectUpdates(_, _, _, _, _)
\* lines 158-165: the for loop from entry i of all_updates on
SelectUpdates(all_updates, i, updates, stable_branches, number_of_updates) ==
    IF i > Len(all_updates)
    THEN updates
    ELSE LET u == all_updates[i]
             take == u.branch \notin stable_branches \/ u.status # "stable"
             updates1 == IF take
                         THEN Append(updates, <<u.title, u.karma, u.status>>)
                         ELSE updates
             stable1 == IF take /\ u.status = "stable"
                        THEN stable_branches \cup {u.branch}
                        ELSE stable_branches
         IN  IF Len(updates1) = number_of_updates
             THEN updates1
             ELSE SelectUpdates(all_updates, i + 1, updates1, stable1,
                                number_of_updates)

\* lines 128-166
get_updates(all, ps, number_of_updates) ==
    LET fetched == FetchPages(all, ps, 1, 1, <<>>)
        all_updates == [i \in 1..Len(fetched) |->
                           [title |-> fetched[i].title,
                            karma |-> fetched[i].karma,
                            status |-> fetched[i].status,
                            branch |-> fetched[i].release.branch]]
    IN  SelectUpdates(all_updates, 1, <<>>, {}, number_of_updates)

\* status.get_updates(number_of_updates) is called
CallGetUpdates ==
    /\ st.phase = "idle"
    /\ \E all \in SeqsUpTo(UpdateKinds, MaxUpdates), ps \in PageSizes,
          n \in 0..MaxRequested :
          st' = [phase |-> "returned", op |-> "get_updates", bodhi |-> all,
                 page_size |-> ps, number_of_updates |-> n,
                 result |-> get_updates(all, ps, n)]
    /\ UNCHANGED <<resolverVars, urlVars, filesVars>>

\* the caller is done with the result
StatusDone ==
    /\ st.phase = "returned"
    /\ st' = NoStatusCall
    /\ UNCHANGED <<resolverVars, urlVars, filesVars>>

----------------------------------------------------------------------------
(* status.py: Status.get_koji_builds                                       *)

\* An nvr is kept as the sequence of the pieces its dots separate:
\* "python-ogr-0.5.0-1.fc29" is <<"python-ogr-0", "5", "0-1", "fc29">>.
Nvr(minor, dist) == <<"python-ogr-0", minor, "0-1", dist>>

KojiBuilds == {[nvr |-> Nvr(m, d)] : m \in {"5", "6"}, d \in {"fc29", "fc30"}}

\* nvr.rsplit(".", 1) of an nvr that has a dot: the text before the last dot
\* and the text after it
rsplit1(nvr) == <<SubSeq(nvr, 1, Len(nvr) - 1), nvr[Len(nvr)]>>

\* reversed(builds_l)
Reversed(l) == [i \in 1..Len(l) |-> l[Len(l) + 1 - i]]

\* d[key] = value
SetItem(d, key, value) ==
    [k \in DOMAIN d \cup {key} |-> IF k = key THEN value ELSE d[k]]

RECURSIVE DictOfBuilds(_, _, _)
\* line 126: the dict comprehension over the builds bs, from entry i on; a
\* key met again takes the later value
DictOfBuilds(bs, i, d) ==
    IF i > Len(bs)
    THEN d
    ELSE DictOfBuilds(bs, i + 1, SetItem(d, rsplit1(bs[i].nvr)[2], bs[i].nvr))

\* lines 103-126, builds_l being what session.listBuilds returned
get_koji_builds(builds_l) == DictOfBuilds(Reversed(builds_l), 1, EmptyDict)

\* status.get_koji_builds() is called
CallGetKojiBuilds ==
    /\ st.phase = "idle"
    /\ \E builds_l \in SeqsUpTo(KojiBuilds, MaxBuilds) :
          st' = [phase |-> "returned", op |-> "get_koji_builds",
                 builds_l |-> builds_l, result |-> get_koji_builds(builds_l)]
    /\ UNCHANGED <<resolverVars, urlVars, filesVars>>

NextStatus ==
    \/ CallGetUpdates
    \/ CallGetKojiBuilds
    \/ StatusDone

SpecStatus == Init /\ [][NextStatus]_vars

\* C10: get_updates returns at most number_of_updates entries, for every
\* number_of_updates >= 0 and whatever pages Bodhi returns.
C10_AtMostNumberOfUpdates ==
    (st.phase = "returned" /\ st.op = "get_updates") =>
       Len(st.result) <= st.number_of_updates

\* the entry get_updates returns for update u
Entry(u) == <<u.title, u.karma, u.status>>

RECURSIVE FirstStablePerBranch(_, _)
\* the entries of the updates all[i..] in fetched order, leaving out each
\* stable update whose branch has an earlier stable update in all
FirstStablePerBranch(all, i) ==
    IF i > Len(all)
    THEN <<>>
    ELSE LET u == all[i]
             repeated == /\ u.status = "stable"
                         /\ \E j \in 1..(i - 1) :
                               /\ all[j].status = "stable"
                               /\ all[j].release.branch = u.release.branch
         IN  (IF repeated THEN <<>> ELSE <<Entry(u)>>)
                \o FirstStablePerBranch(all, i + 1)

\* C11: the list get_updates returns holds, for every branch, at most one
\* entry of a stable update of that branch, the first one fetched, and no
\* other update is left out by the branch rule: the list is an initial part
\* of the fetched updates without the repeated stable ones.  (An update's
\* title names its branch and status.)
C11_OneStableUpdatePerBranch ==
    (st.phase = "returned" /\ st.op = "get_updates") =>
       LET kept == FirstStablePerBranch(st.bodhi, 1)
       IN  /\ Len(st.result) <= Len(kept)
           /\ st.result = SubSeq(kept, 1, Len(st.result))
           /\ \A b \in Branches :
                 Cardinality({k \in 1..Len(st.result) :
                                 st.result[k] = Entry(Update("stable", b))}) <= 1

C11_Witness ==
    /\ st.phase = "returned" /\ st.op = "get_updates"
    /\ Len(st.bodhi) = 3
    /\ st.bodhi[1].status = "stable" /\ st.bodhi[2] = st.bodhi[1]
    /\ st.bodhi[3].status = "testing"
    /\ st.bodhi[3].release.branch = st.bodhi[1].release.branch
    /\ st.number_of_updates = 3
    /\ st.result = <<Entry(st.bodhi[1]), Entry(st.bodhi[3])>>

\* the text after the last dot of the nvr of build b
BranchOf(b) == b.nvr[Len(b.nvr)]

\* C12: get_koji_builds maps each branch suffix to the build that comes last
\* in the fetched list among the builds of that branch, so that
\* [python-ogr-0.5.0-1.fc29, python-ogr-0.6.0-1.fc29] gives
\* {fc29: python-ogr-0.6.0-1.fc29}.
C12_LatestBuildPerBranch ==
    (st.phase = "returned" /\ st.op = "get_koji_builds") =>
       /\ DOMAIN st.result = {BranchOf(st.builds_l[i]) : i \in 1..Len(st.builds_l)}
       /\ \A i \in 1..Len(st.builds_l) :
             (\A j \in (i + 1)..Len(st.builds_l) :
                 BranchOf(st.builds_l[j]) # BranchOf(st.builds_l[i]))
             => st.result[BranchOf(st.builds_l[i])] = st.builds_l[i].nvr

====
